---- MODULE Spec2Model ----
(***************************************************************************)
(* L-System Lab (src/src/main.js): the generation engine                   *)
(* generateAllGenerationsTagged, the turtle interpreter interpretString,   *)
(* the pipeline of render (preRenderAllGenerations) and the display and    *)
(* playback controls (showGeometry, togglePlay, scrubGeneration, animate). *)
(*                                                                         *)
(* Strings are sequences of one-character strings.  A Uint8Array is a      *)
(* sequence of naturals below 256.  Each part is a state machine of its    *)
(* own (SpecGen, SpecTurtle, SpecPipeline, SpecUI, SpecShow); the          *)
(* variables of a machine that is not running keep their initial values.   *)
(* SpecUI stands for a generation by its symbol count and for a buffer by  *)
(* its generation and its vertex count; time is counted in milliseconds.   *)
(***************************************************************************)
EXTENDS Integers, Sequences, FiniteSets, TLC

VARIABLES
    \* ---- generateAllGenerationsTagged (main.js 8-37)
    axiom,        \* parameter: the axiom string
    rules,        \* parameter: the rules object (key -> replacement)
    iterations,   \* parameter: the iteration count
    genI,         \* the loop variable i of line 15
    chars,        \* let chars (line 10)
    births,       \* let births (line 11), a Uint8Array
    gens,         \* const gens (line 13); gens[g+1] is generation g
    genPc,        \* "idle", "loop" (lines 15-34) or "done" (after line 36)
    \* ---- interpretString (main.js 50-153)
    str,          \* parameter: the symbol string
    angle,        \* parameter: the turn angle, in degrees
    len,          \* parameter: the step length
    twist,        \* parameter: the twist factor
    branchColor,  \* parameter
    leafColor,    \* parameter
    birthGens,    \* parameter: [given |-> BOOLEAN, tags |-> Uint8Array]
    strI,         \* the loop variable i of line 66
    pos,          \* let pos (line 56): a vector
    quat,         \* let quat (line 57): a reference to a Quaternion object
    qheap,        \* the Quaternion objects; qheap[r] is the value of object r
    stack,        \* const stack (line 54): records [pos, quat reference]
    vertices,     \* const vertices (line 51)
    colors,       \* const colors (line 52)
    segmentBirths,\* const segmentBirths (line 53)
    thrown,       \* TRUE once a TypeError has left the function
    result,       \* the returned object (lines 148-152)
    turtlePc,     \* "idle", "scan" (lines 66-146) or "done"
    \* ---- history of the interpreter's run, read by the properties only
    hist,         \* hist[k+1]: position and orientation after k characters
    snaps,        \* snaps[k]: the buffers right after the k-th segment
    randomCalls,  \* how many times Math.random() has been called
    \* ---- render's pipeline (main.js 423-425) and preRenderAllGenerations
    \* (main.js 325-330)
    mapIndex,     \* the index of the generation taggedGens.map is at
    preRendered,  \* the array the map has built so far
    pipePc,       \* "idle", "expand" (line 423), "map" (line 425) or "done"
    \* ---- the animation state (main.js 316-323) and the display
    animationTimer,    \* the id setTimeout returned (line 502), NoTimer for null
    cachedGenerations, \* the generations, each held as its symbol count;
                       \* <<>> for null
    cachedGeometries,  \* one buffer or Null for every generation; <<>> for null
    currentGenIndex,
    isPlaying,
    drawProgress,      \* Null or the record of lines 530-536, the clock and
                       \* startTime held as the time elapsed since startTime
    growthMode,
    currentMesh,       \* line 179: Null or the buffer shown and its draw range
    sliderMax,         \* line 444: the largest value the slider can send
    timers,            \* the timeouts that are pending
    frameCalls,        \* the counts the latest frame of the growth under
                       \* way passed to setDrawRange, <<>> before its first
    uiEvent,           \* the handler that ran last and its argument
    showArgs,          \* the arguments of a call of showGeometry
    clicks,            \* how many times the user has acted on the page
    undisturbed,       \* togglePlay started playback and the user has not acted since
    uiPc               \* "idle", "load" (before line 721), "ready", or
                       \* "show"/"shown" around one call of showGeometry

genVars == <<axiom, rules, iterations, genI, chars, births, gens, genPc>>

turtleParams == <<str, angle, len, twist, branchColor, leafColor, birthGens>>

turtleVars == <<turtleParams, strI, pos, quat, qheap, stack, vertices, colors,
                segmentBirths, thrown, result, turtlePc, hist, snaps,
                randomCalls>>

pipeVars == <<mapIndex, preRendered, pipePc>>

uiVars == <<animationTimer, cachedGenerations, cachedGeometries,
            currentGenIndex, isPlaying, drawProgress, growthMode, currentMesh,
            sliderMax, timers, frameCalls, uiEvent, showArgs, clicks, undisturbed,
            uiPc>>

vars == <<genVars, turtleVars, pipeVars, uiVars>>

-----------------------------------------------------------------------------
(* Bounds of the engine's inputs *)

MaxAxiomLen == 2
MaxReplLen == 2
MaxIter == 3
\* iteration count of the runs whose strings cannot grow
LongIter == 257

\* the cell width of a Uint8Array
Uint8Mod == 256

\* the engine's alphabet: every symbol may be a rule key, and a symbol the
\* rule set leaves out is terminal
GenSymbols == {"A", "F"}
RuleKeys == GenSymbols

SeqsUpTo(S, lo, hi) == UNION {[1..k -> S] : k \in lo..hi}

\* the interpreter has not been called
TurtleIdle ==
    /\ str = <<>> /\ angle = 0 /\ len = 0 /\ twist = 0
    /\ branchColor = <<>> /\ leafColor = <<>>
    /\ birthGens = [given |-> FALSE, tags |-> <<>>]
    /\ strI = 0 /\ pos = <<0, 0, 0>> /\ quat = 0 /\ qheap = <<>>
    /\ stack = <<>> /\ vertices = <<>> /\ colors = <<>>
    /\ segmentBirths = <<>> /\ thrown = FALSE
    /\ result = [vertices |-> <<>>, colors |-> <<>>, segmentBirths |-> <<>>]
    /\ turtlePc = "idle" /\ hist = <<>> /\ snaps = <<>>
    /\ randomCalls = 0

\* render has not been called
PipeIdle == mapIndex = 0 /\ preRendered = <<>> /\ pipePc = "idle"

\* null (lines 318-321, 327) and a value that is anything else
Null == [null |-> TRUE]

\* line 316: animationTimer = null
NoTimer == 0

\* lines 316-323 and 179: the page's script has not been run as a whole
UiIdle ==
    /\ animationTimer = NoTimer
    /\ cachedGenerations = <<>> /\ cachedGeometries = <<>>
    /\ currentGenIndex = 0 /\ isPlaying = FALSE
    /\ drawProgress = Null
    /\ growthMode = TRUE
    /\ currentMesh = Null
    /\ sliderMax = 0
    /\ timers = {} /\ frameCalls = <<>>
    /\ uiEvent = [name |-> "none", val |-> 0]
    /\ showArgs = <<>>
    /\ clicks = 0
    /\ undisturbed = FALSE
    /\ uiPc = "idle"

\* the engine has not been called
GenIdle ==
    /\ axiom = <<>> /\ rules = <<>> /\ iterations = 0 /\ genI = 0
    /\ chars = <<>> /\ births = <<>> /\ gens = <<>> /\ genPc = "idle"

-----------------------------------------------------------------------------
(* generateAllGenerationsTagged *)

\* a variant of ZeroBirths that allocates at least one cell
ZeroBirthsAtLeastOne(n) == [j \in 1..(IF n = 0 THEN 1 ELSE n) |-> 0]

\* new Uint8Array(n): n cells holding 0
ZeroBirths(n) == [j \in 1..n |-> 0]

\* new Uint8Array(arrayLike): every element is stored modulo 2^8
ToUint8Array(s) == [j \in 1..Len(s) |-> s[j] % Uint8Mod]

\* a variant of RuleLookup that rewrites only the characters the
\* interpreter has a case for
RuleLookupCommandsOnly(rs, ch) ==
    IF ch \in DOMAIN rs
       /\ ch \in {"F", "A", "B", "X", "+", "-", "^", "&", "\\", "/", "[", "]"}
    THEN [defined |-> TRUE, value |-> rs[ch]]
    ELSE [defined |-> FALSE, value |-> <<>>]

\* rules[ch]: the replacement, or undefined when the object has no such key
RuleLookup(rs, ch) ==
    IF ch \in DOMAIN rs THEN [defined |-> TRUE, value |-> rs[ch]]
                        ELSE [defined |-> FALSE, value |-> <<>>]

\* if (replacement): undefined and the empty string are falsy
Truthy(replacement) == replacement.defined /\ Len(replacement.value) > 0

\* a variant of BornTag that tags with the generation being read
BornTagOffByOne(i) == i

\* line 24: the tag pushed for every character of a replacement
BornTag(i) == i + 1

\* a variant of InheritedTag that tags a copied character as newly born
InheritedTagRetag(bs, j, i) == i + 1

\* line 28: the tag pushed for a character that is copied
InheritedTag(bs, j, i) == bs[j]

\* a variant of ExpandChar that pushes one tag per replacement, not one per
\* character of it
ExpandCharOneTag(cs, bs, rs, j, i) ==
    LET replacement == RuleLookup(rs, cs[j])
    IN  IF Truthy(replacement)
        THEN [chars  |-> replacement.value, births |-> <<BornTag(i)>>]
        ELSE [chars  |-> <<cs[j]>>, births |-> <<InheritedTag(bs, j, i)>>]

\* lines 19-29: what one symbol contributes to nextChars and nextBirths
ExpandChar(cs, bs, rs, j, i) ==
    LET replacement == RuleLookup(rs, cs[j])
    IN  IF Truthy(replacement)
        THEN [chars  |-> replacement.value,
              births |-> [k \in 1..Len(replacement.value) |-> BornTag(i)]]
        ELSE [chars  |-> <<cs[j]>>,
              births |-> <<InheritedTag(bs, j, i)>>]

\* lines 16-30: the inner loop over j, left to right
RECURSIVE RewritePass(_, _, _, _, _)
RewritePass(cs, bs, rs, j, i) ==
    IF j > Len(cs) THEN [chars |-> <<>>, births |-> <<>>]
    ELSE LET head == ExpandChar(cs, bs, rs, j, i)
             tail == RewritePass(cs, bs, rs, j + 1, i)
         IN  [chars |-> head.chars \o tail.chars,
              births |-> head.births \o tail.births]

\* line 13 / line 33: the entry pushed on gens (births is copied)
GenEntry(cs, bs) == [chars |-> cs, births |-> ToUint8Array(bs)]

\* the rule sets getParams can build (line 400: a key and a non-empty
\* production), over the model's alphabet
RuleSets(maxRepl) ==
    UNION {[K -> SeqsUpTo(GenSymbols, 1, maxRepl)] : K \in SUBSET RuleKeys}

\* PRESETS.Sierpinski (lines 195-200), run for one iteration
SierpinskiInput ==
    [axiom |-> <<"A">>,
     rules |-> ("A" :> <<"+", "B", "-", "A", "-", "B", "+">>) @@
               ("B" :> <<"-", "A", "+", "B", "+", "A", "-">>),
     iterations |-> 1]

\* a rule whose replacement is its own key, run for five iterations
SelfRuleInput ==
    [axiom |-> <<"X">>, rules |-> ("X" :> <<"X">>), iterations |-> 5]

\* the calls render makes (line 423): any axiom, any rule set, any count;
\* the long runs use rule sets that cannot grow the string
GenInputs ==
    ([axiom : SeqsUpTo(GenSymbols, 0, MaxAxiomLen),
      rules : RuleSets(MaxReplLen),
      iterations : 0..MaxIter])
    \cup
    ([axiom : SeqsUpTo(GenSymbols, 1, 1),
      rules : RuleSets(1),
      iterations : {LongIter}])
    \cup
    {SierpinskiInput, SelfRuleInput}

\* lines 8-13
InitGen ==
    \E in \in GenInputs :
        /\ axiom = in.axiom
        /\ rules = in.rules
        /\ iterations = in.iterations
        /\ genI = 0
        /\ chars = in.axiom
        /\ births = ZeroBirths(Len(in.axiom))
        /\ gens = <<GenEntry(in.axiom, ZeroBirths(Len(in.axiom)))>>
        /\ genPc = "loop"
        /\ TurtleIdle
        /\ PipeIdle
        /\ UiIdle

\* lines 15-34: one iteration of the outer loop
GenStep ==
    /\ genPc = "loop"
    /\ genI < iterations
    /\ LET next == RewritePass(chars, births, rules, 1, genI)
       IN  /\ chars' = next.chars
           /\ births' = ToUint8Array(next.births)
           /\ gens' = Append(gens, GenEntry(next.chars, ToUint8Array(next.births)))
    /\ genI' = genI + 1
    /\ UNCHANGED <<axiom, rules, iterations, genPc, turtleVars, pipeVars,
                   uiVars>>

\* line 36: the loop condition fails and gens is returned
GenReturn ==
    /\ genPc = "loop"
    /\ ~(genI < iterations)
    /\ genPc' = "done"
    /\ UNCHANGED <<axiom, rules, iterations, genI, chars, births, gens,
                   turtleVars, pipeVars, uiVars>>

NextGen == GenStep \/ GenReturn

SpecGen == InitGen /\ [][NextGen]_vars


-----------------------------------------------------------------------------
(* Arithmetic of the interpreter.  Coordinates are whole numbers of         *)
(* 1/CoordUnit; the components of a quaternion are halves of numbers        *)
(* a + b*sqrt(2), written <<a, b>>, which holds every rotation by a         *)
(* multiple of 90 degrees about a coordinate axis and their products        *)
(* exactly.                                                                 *)

\* coordinates are kept in twentieths, so that len * 0.5 (line 86) and
\* leafLen * 0.3 (lines 87-88) are whole
CoordUnit == 20

RInt(n) == <<n, 0>>
RAdd(x, y) == <<x[1] + y[1], x[2] + y[2]>>
RSub(x, y) == <<x[1] - y[1], x[2] - y[2]>>
RMul(x, y) == <<x[1] * y[1] + 2 * x[2] * y[2], x[1] * y[2] + x[2] * y[1]>>
RHalf(x) == <<x[1] \div 2, x[2] \div 2>>

\* new THREE.Quaternion(): the identity
IdentityQuat == [x |-> RInt(0), y |-> RInt(0), z |-> RInt(0), w |-> RInt(2)]

\* twice the cosine and sine of n * 45 degrees
CosHalf(n) ==
    << <<2, 0>>, <<0, 1>>, <<0, 0>>, <<0, -1>>,
       <<-2, 0>>, <<0, -1>>, <<0, 0>>, <<0, 1>> >>[(n % 8) + 1]
SinHalf(n) == CosHalf(n - 2)

\* Quaternion.setFromAxisAngle(axis, n quarter turns): (axis * sin(a/2), cos(a/2))
SetFromAxisAngle(axis, n) ==
    [x |-> RMul(RInt(axis[1]), SinHalf(n)),
     y |-> RMul(RInt(axis[2]), SinHalf(n)),
     z |-> RMul(RInt(axis[3]), SinHalf(n)),
     w |-> CosHalf(n)]

\* Quaternion.multiply: a * b, the Hamilton product
MultiplyQuat(a, b) ==
    [x |-> RHalf(RSub(RAdd(RAdd(RMul(a.x, b.w), RMul(a.w, b.x)), RMul(a.y, b.z)), RMul(a.z, b.y))),
     y |-> RHalf(RSub(RAdd(RAdd(RMul(a.y, b.w), RMul(a.w, b.y)), RMul(a.z, b.x)), RMul(a.x, b.z))),
     z |-> RHalf(RSub(RAdd(RAdd(RMul(a.z, b.w), RMul(a.w, b.z)), RMul(a.x, b.y)), RMul(a.y, b.x))),
     w |-> RHalf(RSub(RSub(RSub(RMul(a.w, b.w), RMul(a.x, b.x)), RMul(a.y, b.y)), RMul(a.z, b.z)))]

\* Vector3.applyQuaternion: v + q.w * t + q.xyz x t, with t = 2 * (q.xyz x v)
ApplyQuaternionR(v, q) ==
    LET tx == RSub(RMul(q.y, RInt(v[3])), RMul(q.z, RInt(v[2])))
        ty == RSub(RMul(q.z, RInt(v[1])), RMul(q.x, RInt(v[3])))
        tz == RSub(RMul(q.x, RInt(v[2])), RMul(q.y, RInt(v[1])))
    IN  << RAdd(RInt(v[1]), RHalf(RSub(RAdd(RMul(q.w, tx), RMul(q.y, tz)), RMul(q.z, ty)))),
           RAdd(RInt(v[2]), RHalf(RSub(RAdd(RMul(q.w, ty), RMul(q.z, tx)), RMul(q.x, tz)))),
           RAdd(RInt(v[3]), RHalf(RSub(RAdd(RMul(q.w, tz), RMul(q.x, ty)), RMul(q.y, tx)))) >>

\* the rotated vector; its components are whole for the rotations above
ApplyQuaternion(v, q) ==
    LET r == ApplyQuaternionR(v, q) IN <<r[1][1], r[2][1], r[3][1]>>

VAdd(u, v) == <<u[1] + v[1], u[2] + v[2], u[3] + v[3]>>
VSub(u, v) == <<u[1] - v[1], u[2] - v[2], u[3] - v[3]>>
VScale(v, k) == <<v[1] * k, v[2] * k, v[3] * k>>

\* line 58: const up
Up == <<0, 1, 0>>
\* line 56: the origin
Origin == <<0, 0, 0>>
AxisX == <<1, 0, 0>>
AxisY == <<0, 1, 0>>
AxisZ == <<0, 0, 1>>

\* line 63: rad = angle * PI / 180, counted in quarter turns
Rad(a) == a \div 90

\* lines 101, 110: Math.random() * twist * PI lies in [0, twist * PI), and
\* is 0 when twist is 0; the quarter-turn counts in that range
RandomTwists(t) == {n \in 0..3 : n < 2 * t \/ n = 0}

\* lines 60-61: new THREE.Color(c), the three channels of c
Color(c) == [r |-> c[1], g |-> c[2], b |-> c[3]]

\* new Float32Array(values): the model's whole coordinates and channels are
\* held as they are
ToFloat32Array(s) == [j \in 1..Len(s) |-> s[j]]

-----------------------------------------------------------------------------
(* interpretString *)

MaxStrLen == 3
MaxNestLen == 6
MaxTwistLen == 4

\* a variant of DrawCommands in which 'B' has no case
DrawCommandsNoB == {"F", "A"}

\* line 71-73: the characters that draw a forward segment
DrawCommands == {"F", "A", "B"}
\* lines 97-134: the characters that turn the turtle
TurnCommands == {"+", "-", "^", "&", "\\", "/"}
\* the characters that have a case in the switch (lines 71-144)
Commands == DrawCommands \cup {"X"} \cup TurnCommands \cup {"[", "]"}

\* the twelve commands and one character that has no case
TurtleSymbols ==
    {"F", "A", "B", "X", "+", "-", "^", "&", "\\", "/", "[", "]", "Y"}
\* the symbols of the longer, bracketed strings
NestSymbols == {"F", "+", "[", "]"}
\* the symbols of the strings interpreted without a tag sequence
UntaggedSymbols == {"F", "B", "X", "+"}
\* the symbols of the strings interpreted with twist > 0
TwistSymbols == {"F", "+", "-", "[", "]"}

\* the tags 0, 1, 2, ... by position: each character's tag tells it apart
IndexTags(n) == [j \in 1..n |-> j - 1]

\* PRESETS['3D Tree'] (line 187): '#D2A679' and '#006600'
TreeBranchColor == <<210, 166, 121>>
TreeLeafColor == <<0, 102, 0>>

\* the calls made on the interpreter: line 328 passes a generation and its
\* tags; the tags may also be left out (line 68)
TurtleInputs ==
    ([str : SeqsUpTo(TurtleSymbols, 0, MaxStrLen),
      tagged : {TRUE}, twist : {0}])
    \cup
    ([str : SeqsUpTo(UntaggedSymbols, 0, MaxStrLen),
      tagged : {FALSE}, twist : {0}])
    \cup
    ([str : SeqsUpTo(NestSymbols, 0, MaxNestLen),
      tagged : {TRUE}, twist : {0}])
    \cup
    ([str : SeqsUpTo(TwistSymbols, 0, MaxTwistLen),
      tagged : {TRUE}, twist : {1}])

\* lines 50-64
InitTurtle ==
    /\ \E in \in TurtleInputs :
        /\ str = in.str
        /\ twist = in.twist
        /\ birthGens = IF in.tagged
                       THEN [given |-> TRUE, tags |-> IndexTags(Len(in.str))]
                       ELSE [given |-> FALSE, tags |-> <<>>]
    /\ angle = 90
    /\ len = 2
    /\ branchColor = TreeBranchColor
    /\ leafColor = TreeLeafColor
    /\ strI = 0
    /\ pos = Origin
    /\ quat = 1
    /\ qheap = <<IdentityQuat>>
    /\ stack = <<>>
    /\ vertices = <<>>
    /\ colors = <<>>
    /\ segmentBirths = <<>>
    /\ thrown = FALSE
    /\ result = [vertices |-> <<>>, colors |-> <<>>, segmentBirths |-> <<>>]
    /\ turtlePc = "scan"
    /\ hist = <<[pos |-> Origin, quat |-> IdentityQuat]>>
    /\ snaps = <<>>
    /\ randomCalls = 0
    /\ GenIdle
    /\ PipeIdle
    /\ UiIdle

\* line 67: const ch = str[i]
Ch == str[strI + 1]

\* a variant of Birth that indexes the tags by charIdx (line 64), which
\* stays 0
BirthByCharIdx ==
    IF birthGens.given /\ Len(birthGens.tags) > 0 THEN birthGens.tags[1] ELSE 0

\* line 68: const birth = birthGens ? birthGens[i] : 0
Birth == IF birthGens.given THEN birthGens.tags[strI + 1] ELSE 0

\* lines 60-61
BranchC == Color(branchColor)
LeafC == Color(leafColor)

\* the value of the Quaternion object quat refers to
QuatValue == qheap[quat]

\* the three output arrays as one record
Buffers(vs, cs, sb) == [vertices |-> vs, colors |-> cs, segmentBirths |-> sb]

\* a variant of SegmentVertices that pushes the end point first
SegmentVerticesReversed(from, to) ==
    <<to[1], to[2], to[3], from[1], from[2], from[3]>>

\* lines 76/78/79 (and 89-94): the entries one segment adds to the arrays
SegmentVertices(from, to) == <<from[1], from[2], from[3], to[1], to[2], to[3]>>
SegmentColors(c) == <<c.r, c.g, c.b, c.r, c.g, c.b>>

\* a variant of EmitSegment that puts the new segment in front (unshift)
EmitSegmentFront(buf, from, to, c, birth) ==
    Buffers(SegmentVertices(from, to) \o buf.vertices,
            SegmentColors(c) \o buf.colors,
            <<birth>> \o buf.segmentBirths)

\* the arrays after one more segment has been pushed
EmitSegment(buf, from, to, c, birth) ==
    Buffers(buf.vertices \o SegmentVertices(from, to),
            buf.colors \o SegmentColors(c),
            Append(buf.segmentBirths, birth))

\* a variant of DrawColor that draws every forward segment as a branch
DrawColorAllBranch(ch) == BranchC

\* line 77: the color of the segment an F, A or B draws
DrawColor(ch) == IF ch = "F" \/ ch = "A" THEN BranchC ELSE LeafC

\* the loop is at a character (line 66) and nothing has been thrown
AtChar == turtlePc = "scan" /\ strI < Len(str)

\* one character has been handled: i++ and the history grows
Advance(newPos, newHeap, newQuat) ==
    /\ strI' = strI + 1
    /\ hist' = Append(hist, [pos |-> newPos, quat |-> newHeap[newQuat]])
    /\ UNCHANGED <<turtleParams, genVars, pipeVars, uiVars, result>>

\* lines 71-82: case 'F', 'A', 'B'
DrawBranch ==
    /\ AtChar
    /\ Ch \in DrawCommands
    /\ LET dir == VScale(ApplyQuaternion(Up, QuatValue), len * CoordUnit)
           newPos == VAdd(pos, dir)
           buf == EmitSegment(Buffers(vertices, colors, segmentBirths),
                              pos, newPos, DrawColor(Ch), Birth)
       IN  /\ vertices' = buf.vertices
           /\ colors' = buf.colors
           /\ segmentBirths' = buf.segmentBirths
           /\ snaps' = Append(snaps, buf)
           /\ pos' = newPos
           /\ Advance(newPos, qheap, quat)
    /\ UNCHANGED <<quat, qheap, stack, thrown, turtlePc, randomCalls>>

\* line 86: leafLen = len * 0.5, in coordinate units
LeafLen(l) == (l * CoordUnit) \div 2
\* lines 87-88: leafLen * 0.3, in coordinate units
LeafSpread(l) == (LeafLen(l) * 3) \div 10

\* a variant of LeafPos that moves the turtle to the tip of the first leaf
LeafPosAtTip(p, tip1) == tip1

\* lines 83-96: case 'X' never assigns pos
LeafPos(p, tip1) == p

\* lines 83-96: case 'X'
DrawLeaf ==
    /\ AtChar
    /\ Ch = "X"
    /\ LET dir1 == ApplyQuaternion(Up, QuatValue)
           left == ApplyQuaternion(AxisX, QuatValue)
           tip1 == VAdd(VAdd(pos, VScale(dir1, LeafLen(len))), VScale(left, LeafSpread(len)))
           tip2 == VSub(VAdd(pos, VScale(dir1, LeafLen(len))), VScale(left, LeafSpread(len)))
           buf1 == EmitSegment(Buffers(vertices, colors, segmentBirths),
                               pos, tip1, LeafC, Birth)
           buf2 == EmitSegment(buf1, pos, tip2, LeafC, Birth)
       IN  /\ vertices' = buf2.vertices
           /\ colors' = buf2.colors
           /\ segmentBirths' = buf2.segmentBirths
           /\ snaps' = snaps \o <<buf1, buf2>>
           /\ pos' = LeafPos(pos, tip1)
           /\ Advance(LeafPos(pos, tip1), qheap, quat)
    /\ UNCHANGED <<quat, qheap, stack, thrown, turtlePc, randomCalls>>

\* a variant of Rotate that multiplies from the left (premultiply)
RotateWorldFrame(heap, q) == [heap EXCEPT ![quat] = MultiplyQuat(q, @)]

\* quat.multiply(q): the object quat refers to is changed in place
Rotate(heap, q) == [heap EXCEPT ![quat] = MultiplyQuat(@, q)]

\* an orientation command that turns by q and then, for '+' and '-' with
\* twist > 0, by yRot
Turn(q, yRots) ==
    /\ \E yRot \in yRots :
          LET newHeap == Rotate(Rotate(qheap, q), yRot)
          IN  /\ qheap' = newHeap
              /\ Advance(pos, newHeap, quat)
    /\ UNCHANGED <<pos, quat, stack, vertices, colors, segmentBirths, thrown,
                   turtlePc, snaps>>

\* a variant of RandomDraws that calls Math.random() for a twist of 0 too
RandomDrawsAlways == IF twist >= 0 THEN 1 ELSE 0

\* lines 100-101 and 109-110: Math.random() is called once, inside
\* if (twist > 0)
RandomDraws == IF twist > 0 THEN 1 ELSE 0

\* lines 100-103 and 109-112: the random rotation about Y, when twist > 0
YRots == IF RandomDraws > 0
         THEN {SetFromAxisAngle(AxisY, n) : n \in RandomTwists(twist)}
         ELSE {IdentityQuat}

\* lines 97-105: case '+'
TurnPlus ==
    /\ AtChar /\ Ch = "+"
    /\ Turn(SetFromAxisAngle(AxisZ, -Rad(angle)), YRots)
    /\ randomCalls' = randomCalls + RandomDraws

\* lines 106-114: case '-'
TurnMinus ==
    /\ AtChar /\ Ch = "-"
    /\ Turn(SetFromAxisAngle(AxisZ, Rad(angle)), YRots)
    /\ randomCalls' = randomCalls + RandomDraws

\* lines 115-119: case '^'
PitchUp ==
    /\ AtChar /\ Ch = "^"
    /\ Turn(SetFromAxisAngle(AxisX, Rad(angle)), {IdentityQuat})
    /\ UNCHANGED randomCalls

\* lines 120-124: case '&'
PitchDown ==
    /\ AtChar /\ Ch = "&"
    /\ Turn(SetFromAxisAngle(AxisX, -Rad(angle)), {IdentityQuat})
    /\ UNCHANGED randomCalls

\* lines 125-129: case '\\'
RollLeft ==
    /\ AtChar /\ Ch = "\\"
    /\ Turn(SetFromAxisAngle(AxisY, Rad(angle)), {IdentityQuat})
    /\ UNCHANGED randomCalls

\* lines 130-134: case '/'
RollRight ==
    /\ AtChar /\ Ch = "/"
    /\ Turn(SetFromAxisAngle(AxisY, -Rad(angle)), {IdentityQuat})
    /\ UNCHANGED randomCalls

\* a variant of PushedQuat that stores the live object, not a clone of it
PushedQuatShared(heap, q) == [heap |-> heap, ref |-> q]

\* line 136: quat.clone() allocates a new object holding quat's value
PushedQuat(heap, q) ==
    [heap |-> Append(heap, heap[q]), ref |-> Len(heap) + 1]

\* lines 135-137: case '['
Push ==
    /\ AtChar /\ Ch = "["
    /\ LET saved == PushedQuat(qheap, quat)
       IN  /\ qheap' = saved.heap
           /\ stack' = Append(stack, [pos |-> pos, quat |-> saved.ref])
           /\ Advance(pos, saved.heap, quat)
    /\ UNCHANGED <<pos, quat, vertices, colors, segmentBirths, thrown,
                   turtlePc, snaps, randomCalls>>

\* a variant of PopGuard that pops whatever the stack holds
PopGuardAlways(stk) == TRUE

\* line 139: if (stack.length > 0)
PopGuard(stk) == Len(stk) > 0

\* lines 138-144: case ']'.  stack.pop() on an empty array gives undefined,
\* and reading .pos of undefined throws a TypeError
Pop ==
    /\ AtChar /\ Ch = "]"
    /\ IF PopGuard(stack)
       THEN IF Len(stack) = 0
            THEN /\ thrown' = TRUE
                 /\ turtlePc' = "thrown"
                 /\ UNCHANGED <<turtleParams, genVars, pipeVars, uiVars,
                                result, strI, hist, pos, quat, stack>>
            ELSE LET state == stack[Len(stack)]
                 IN  /\ stack' = SubSeq(stack, 1, Len(stack) - 1)
                     /\ pos' = state.pos
                     /\ quat' = state.quat
                     /\ Advance(state.pos, qheap, state.quat)
                     /\ UNCHANGED <<thrown, turtlePc>>
       ELSE /\ Advance(pos, qheap, quat)
            /\ UNCHANGED <<pos, quat, stack, thrown, turtlePc>>
    /\ UNCHANGED <<qheap, vertices, colors, segmentBirths, snaps, randomCalls>>

\* line 70: a character without a case falls through the switch
NoCase ==
    /\ AtChar /\ Ch \notin Commands
    /\ Advance(pos, qheap, quat)
    /\ UNCHANGED <<pos, quat, qheap, stack, vertices, colors, segmentBirths,
                   thrown, turtlePc, snaps, randomCalls>>

\* lines 148-152: the loop is over and the typed arrays are returned
TurtleReturn ==
    /\ turtlePc = "scan"
    /\ ~(strI < Len(str))
    /\ result' = [vertices |-> ToFloat32Array(vertices),
                  colors |-> ToFloat32Array(colors),
                  segmentBirths |-> ToUint8Array(segmentBirths)]
    /\ turtlePc' = "done"
    /\ UNCHANGED <<turtleParams, genVars, pipeVars, uiVars, strI, pos, quat,
                   qheap, stack, vertices, colors, segmentBirths, thrown, hist,
                   snaps, randomCalls>>

NextTurtle ==
    \/ DrawBranch \/ DrawLeaf
    \/ TurnPlus \/ TurnMinus \/ PitchUp \/ PitchDown \/ RollLeft \/ RollRight
    \/ Push \/ Pop \/ NoCase
    \/ TurtleReturn

SpecTurtle == InitTurtle /\ [][NextTurtle]_vars

\* every orientation is a unit quaternion and every rotated axis is whole
TurtleSane ==
    turtlePc # "idle" =>
        \A r \in 1..Len(qheap) :
            LET q == qheap[r]
                n == RAdd(RAdd(RMul(q.x, q.x), RMul(q.y, q.y)),
                          RAdd(RMul(q.z, q.z), RMul(q.w, q.w)))
                u == ApplyQuaternionR(Up, q)
                l == ApplyQuaternionR(AxisX, q)
            IN  /\ n = <<4, 0>>
                /\ \A k \in 1..3 : u[k][2] = 0 /\ l[k][2] = 0
                /\ u[1][1] * u[1][1] + u[2][1] * u[2][1] + u[3][1] * u[3][1] = 1
                /\ l[1][1] * l[1][1] + l[2][1] * l[2][1] + l[3][1] * l[3][1] = 1

-----------------------------------------------------------------------------
(* render's pipeline: generateAllGenerationsTagged, then *)
(* preRenderAllGenerations, which maps interpretString over the generations *)

MaxPipeAxiomLen == 1
MaxPipeReplLen == 2
MaxPipeIter == 2

\* line 327: the symbol count above which a generation is not interpreted
MaxChars == 5000000

\* a variant of TooComplex that counts the cap itself as too complex
TooComplexAtCap(n) == n >= MaxChars

\* line 327: gen.chars.length > 5000000
TooComplex(n) == n > MaxChars

\* the symbols of the generic pipeline inputs: a command and a character
\* without a case
PipeSymbols == {"F", "Y"}

\* the rule sets of the generic pipeline inputs
PipeRuleSets ==
    UNION {[K -> SeqsUpTo(PipeSymbols, 1, MaxPipeReplLen)] : K \in SUBSET PipeSymbols}

\* PRESETS['Dragon Curve'] (lines 201-206), run for two iterations
DragonCurveInput ==
    [axiom |-> <<"F", "X">>,
     rules |-> ("X" :> <<"X", "+", "Y", "F", "+">>) @@
               ("Y" :> <<"-", "F", "X", "-", "Y">>),
     iterations |-> 2]

\* PRESETS['Hilbert Cube'] (lines 225-230), run for one iteration
HilbertCubeInput ==
    [axiom |-> <<"X">>,
     rules |-> ("X" :> <<"^", "\\", "X", "F", "^", "\\", "X", "F", "X", "-",
                         "F", "^", "/", "/", "X", "F", "X", "&", "F", "+",
                         "/", "/", "X", "F", "X", "-", "F", "/", "X", "-",
                         "/">>),
     iterations |-> 1]

\* the rules of PRESETS['3D Tree'] (lines 183-188), run for one iteration
TreeInput ==
    [axiom |-> <<"X">>,
     rules |-> ("X" :> <<"F", "-", "[", "[", "X", "]", "+", "X", "]", "+",
                         "F", "[", "+", "F", "X", "]", "-", "X">>) @@
               ("F" :> <<"F", "F">>),
     iterations |-> 1]

\* what getParams (lines 386-404) hands to render: any axiom, the empty one
\* included, any rule set, any count; and three presets
PipeInputs ==
    ([axiom : SeqsUpTo(PipeSymbols, 0, MaxPipeAxiomLen),
      rules : PipeRuleSets,
      iterations : 0..MaxPipeIter])
    \cup
    {DragonCurveInput, HilbertCubeInput, TreeInput}

\* lines 420-423: render calls generateAllGenerationsTagged
InitPipeline ==
    /\ \E in \in PipeInputs :
        /\ axiom = in.axiom
        /\ rules = in.rules
        /\ iterations = in.iterations
        /\ genI = 0
        /\ chars = in.axiom
        /\ births = ZeroBirths(Len(in.axiom))
        /\ gens = <<GenEntry(in.axiom, ZeroBirths(Len(in.axiom)))>>
        /\ genPc = "loop"
    /\ TurtleIdle
    /\ mapIndex = 0
    /\ preRendered = <<>>
    /\ pipePc = "expand"
    /\ UiIdle

\* line 425: the generations are handed to preRenderAllGenerations
PreRenderEnter ==
    /\ pipePc = "expand"
    /\ genPc = "done"
    /\ pipePc' = "map"
    /\ UNCHANGED <<mapIndex, preRendered, genVars, turtleVars, uiVars>>

\* the generation the map is at
MapGen == gens[mapIndex + 1]

\* lines 326-328: the callback of taggedGens.map for one generation, either
\* null at once or a call of interpretString (lines 50-64)
MapCall ==
    /\ pipePc = "map"
    /\ mapIndex < Len(gens)
    /\ turtlePc = "idle"
    /\ IF TooComplex(Len(MapGen.chars))
       THEN /\ preRendered' = Append(preRendered, Null)
            /\ mapIndex' = mapIndex + 1
            /\ UNCHANGED <<pipePc, genVars, turtleVars, uiVars>>
       ELSE /\ str' = MapGen.chars
            /\ birthGens' = [given |-> TRUE, tags |-> MapGen.births]
            /\ angle' = 90
            /\ len' = 2
            /\ twist' = 0
            /\ branchColor' = TreeBranchColor
            /\ leafColor' = TreeLeafColor
            /\ strI' = 0
            /\ pos' = Origin
            /\ quat' = 1
            /\ qheap' = <<IdentityQuat>>
            /\ stack' = <<>>
            /\ vertices' = <<>>
            /\ colors' = <<>>
            /\ segmentBirths' = <<>>
            /\ turtlePc' = "scan"
            /\ hist' = <<[pos |-> Origin, quat |-> IdentityQuat]>>
            /\ snaps' = <<>>
            /\ UNCHANGED <<thrown, result, randomCalls, pipeVars, genVars,
                           uiVars>>

\* line 328: interpretString has returned and its result is the callback's;
\* the call's locals are gone
MapCollect ==
    /\ pipePc = "map"
    /\ turtlePc = "done"
    /\ preRendered' = Append(preRendered, result)
    /\ mapIndex' = mapIndex + 1
    /\ str' = <<>> /\ angle' = 0 /\ len' = 0 /\ twist' = 0
    /\ branchColor' = <<>> /\ leafColor' = <<>>
    /\ birthGens' = [given |-> FALSE, tags |-> <<>>]
    /\ strI' = 0 /\ pos' = <<0, 0, 0>> /\ quat' = 0 /\ qheap' = <<>>
    /\ stack' = <<>> /\ vertices' = <<>> /\ colors' = <<>>
    /\ segmentBirths' = <<>>
    /\ result' = [vertices |-> <<>>, colors |-> <<>>, segmentBirths |-> <<>>]
    /\ turtlePc' = "idle" /\ hist' = <<>> /\ snaps' = <<>>
    /\ UNCHANGED <<thrown, randomCalls, pipePc, genVars, uiVars>>

\* line 329: the map is over, render stores the array (line 425)
PreRenderReturn ==
    /\ pipePc = "map"
    /\ mapIndex = Len(gens)
    /\ turtlePc = "idle"
    /\ pipePc' = "done"
    /\ UNCHANGED <<mapIndex, preRendered, genVars, turtleVars, uiVars>>

NextPipeline ==
    \/ NextGen
    \/ PreRenderEnter \/ MapCall \/ MapCollect \/ PreRenderReturn
    \/ NextTurtle

SpecPipeline == InitPipeline /\ [][NextPipeline]_vars

-----------------------------------------------------------------------------
(* The animation state and the playback controls (main.js 316-589).  A      *)
(* generation is held as its symbol count and a segment buffer as the       *)
(* generation it was interpreted from and its number of vertices.  Time is  *)
(* counted in milliseconds and moves in steps of TickMs; drawProgress       *)
(* holds the time elapsed since its startTime, a pending timeout the time   *)
(* left until it is due.  Durations are counted in fifths of a millisecond, *)
(* which holds totalSegments * 0.8 exactly.                                 *)

TickMs == 200
MaxClicks == 4
MaxShowSegments == 13

\* line 502: the delay of the timeout of the instant mode
InstantDelay == 800
\* line 585: the delay of the timeout that follows a finished growth
GrowthDelay == 400
\* line 510: Math.min(2500, Math.max(600, ...)), in fifths of a millisecond
MinDuration5 == 3000
MaxDuration5 == 12500

Min(a, b) == IF a < b THEN a ELSE b
Max(a, b) == IF a > b THEN a ELSE b

\* line 510: duration = Math.min(2500, Math.max(600, totalSegments * 0.8))
Duration5(totalSegments) == Min(MaxDuration5, Max(MinDuration5, 4 * totalSegments))

\* the quotient and the remainder of a * b by c, for b <= c, computed bit by
\* bit of a so that no intermediate value exceeds 3 * c; the result for the
\* upper bits of a is bound once, as the element of a singleton
RECURSIVE MulDiv(_, _, _)
MulDiv(a, b, c) ==
    IF a = 0 THEN [quot |-> 0, rem |-> 0]
    ELSE CHOOSE res \in
            {[quot |-> 2 * half.quot + (a % 2) * (b \div c)
                          + (2 * half.rem + (a % 2) * (b % c)) \div c,
              rem  |-> (2 * half.rem + (a % 2) * (b % c)) % c] :
                half \in {MulDiv(a \div 2, b, c)}} : TRUE

\* lines 566-570: t = min(1, elapsed / duration), eased = 1 - (1 - t)^2,
\* vertCount = floor(eased * totalVerts); with e = min(elapsed, duration)
\* eased is (2 e d - e^2) / d^2
VertCount(totalVerts, elapsed, duration5) ==
    LET e == Min(5 * elapsed, duration5)
    IN  MulDiv(totalVerts, 2 * e * duration5 - e * e, duration5 * duration5).quot

\* a variant of EvenCount that passes the vertex count as it is
EvenCountUnaligned(vertCount) == vertCount

\* line 572: evenCount = vertCount - (vertCount % 2)
EvenCount(vertCount) == vertCount - (vertCount % 2)

\* line 567: t >= 1
GrowthOver(elapsed, duration5) == 5 * elapsed >= duration5

\* the buffer interpretString returns for generation g, of so many segments:
\* vertices.length / 3 is twice the number of segments (lines 76, 89-92)
Geometry(g, segments) == [src |-> g, totalVerts |-> 2 * segments]

\* a geometry whose draw range is the default, everything (line 342), or
\* what setDrawRange(0, count) has made it
WholeRange == [whole |-> TRUE, count |-> 0]
DrawRange(n) == [whole |-> FALSE, count |-> n]
Mesh(data, range) == [data |-> data, drawRange |-> range]

\* the number of leading vertices a mesh draws
Displayed(mesh) ==
    IF mesh.drawRange.whole THEN mesh.data.totalVerts
    ELSE Min(mesh.drawRange.count, mesh.data.totalVerts)

\* an argument that was passed, and one that was left out
Given(v) == [defined |-> TRUE, value |-> v]
Undefined == [defined |-> FALSE, value |-> 0]

\* an array element, undefined beyond the end (falsy as null is)
At(array, index) == IF index < Len(array) THEN array[index + 1] ELSE Null

\* the animation state as one record, the form the functions below work on
Here ==
    [animationTimer |-> animationTimer,
     cachedGenerations |-> cachedGenerations,
     cachedGeometries |-> cachedGeometries,
     currentGenIndex |-> currentGenIndex,
     isPlaying |-> isPlaying,
     drawProgress |-> drawProgress,
     growthMode |-> growthMode,
     currentMesh |-> currentMesh,
     sliderMax |-> sliderMax,
     timers |-> timers]

\* the animation state becomes s
Assign(s) ==
    /\ animationTimer' = s.animationTimer
    /\ cachedGenerations' = s.cachedGenerations
    /\ cachedGeometries' = s.cachedGeometries
    /\ currentGenIndex' = s.currentGenIndex
    /\ isPlaying' = s.isPlaying
    /\ drawProgress' = s.drawProgress
    /\ growthMode' = s.growthMode
    /\ currentMesh' = s.currentMesh
    /\ sliderMax' = s.sliderMax
    /\ timers' = s.timers

\* handler name, called with val, ends in state s; the record of the frames
\* goes with the drawProgress it belongs to
Becomes(name, val, s) ==
    /\ Assign(s)
    /\ frameCalls' = IF s.drawProgress = drawProgress THEN frameCalls ELSE <<>>
    /\ uiEvent' = [name |-> name, val |-> val]

\* setTimeout returns an id no pending timeout has and animationTimer does
\* not hold
NewTimerId(s) ==
    CHOOSE id \in 1..(Cardinality(s.timers) + 2) :
        id # s.animationTimer /\ \A t \in s.timers : t.id # id

\* setTimeout(() => { if (isPlaying) startGrowthForGen(next) }, delay); a
\* pending timeout records whether stopAnimation has run since it was set
SetTimeout(s, id, next, delay) ==
    [s EXCEPT !.timers = @ \cup {[id |-> id, next |-> next, left |-> delay,
                                  stopped |-> FALSE]}]

\* lines 450-459: stopAnimation
StopAnimation(s) ==
    [s EXCEPT !.timers = {[t EXCEPT !.stopped = TRUE] :
                             t \in {u \in @ : \/ s.animationTimer = NoTimer
                                              \/ u.id # s.animationTimer}},
              !.animationTimer = NoTimer,
              !.drawProgress = Null,
              !.isPlaying = FALSE]

\* lines 332-356: showGeometry(data, genIndex, totalGens, segmentCount)
ShowGeometry(s, data, segmentCount) ==
    IF data = Null THEN [s EXCEPT !.currentMesh = Null]
    ELSE IF segmentCount.defined /\ segmentCount.value < data.totalVerts
    THEN [s EXCEPT !.currentMesh = Mesh(data, DrawRange(segmentCount.value))]
    ELSE [s EXCEPT !.currentMesh = Mesh(data, WholeRange)]

\* lines 485-537: startGrowthForGen(genIndex)
StartGrowthForGen(s, genIndex) ==
    LET data == At(s.cachedGeometries, genIndex)
        last == Len(s.cachedGenerations) - 1
    IN  IF data = Null THEN StopAnimation(s)
        ELSE IF ~s.growthMode
        THEN LET shown == [ShowGeometry(s, data, Undefined)
                              EXCEPT !.currentGenIndex = genIndex]
                 id == NewTimerId(shown)
             IN  IF shown.isPlaying /\ genIndex < last
                 THEN [SetTimeout(shown, id, genIndex + 1, InstantDelay)
                          EXCEPT !.animationTimer = id]
                 ELSE IF genIndex >= last THEN StopAnimation(shown)
                 ELSE shown
        ELSE [s EXCEPT
                 !.currentMesh = Mesh(data, DrawRange(0)),
                 !.drawProgress =
                     [null |-> FALSE,
                      elapsed |-> 0,
                      duration5 |-> Duration5(data.totalVerts \div 2),
                      genIndex |-> genIndex,
                      totalVerts |-> data.totalVerts,
                      totalSegments |-> data.totalVerts \div 2]]

\* what render makes of the user's input: the symbol count and the segment
\* count of every generation
\* the 3D Tree (lines 183-188): the numbers of X, of F and of other symbols
\* in generation g under X -> F-[[X]+X]+F[+FX]-X, F -> FF
RECURSIVE TreeCounts(_)
TreeCounts(g) ==
    IF g = 0 THEN [x |-> 1, f |-> 0, other |-> 0]
    ELSE LET c == TreeCounts(g - 1)
         IN  [x |-> 4 * c.x, f |-> 2 * c.f + 3 * c.x, other |-> c.other + 11 * c.x]

TreeProfile(n) ==
    [lengths  |-> [k \in 1..(n + 1) |->
                      LET c == TreeCounts(k - 1) IN c.x + c.f + c.other],
     segments |-> [k \in 1..(n + 1) |->
                      LET c == TreeCounts(k - 1) IN c.f + 2 * c.x]]

RECURSIVE Power(_, _)
Power(b, e) == IF e = 0 THEN 1 ELSE b * Power(b, e - 1)

\* an axiom of a times F under the rule that replaces F by f times F, n
\* iterations: every symbol draws one segment
PowerProfile(a, f, n) ==
    [lengths  |-> [k \in 1..(n + 1) |-> a * Power(f, k - 1)],
     segments |-> [k \in 1..(n + 1) |-> a * Power(f, k - 1)]]

\* the inputs render is given: the 3D Tree of the page's load (line 721,
\* five iterations), "F" doubling twice, the empty axiom, and "FFFFF"
\* growing tenfold, whose generation 6 has exactly MaxChars symbols and
\* whose generation 7 has more
UiInputs ==
    {TreeProfile(5),
     PowerProfile(1, 2, 2),
     PowerProfile(0, 1, 1),
     PowerProfile(5, 10, 6),
     PowerProfile(5, 10, 7)}

\* lines 325-330: preRenderAllGenerations
PreRenderAllGenerations(in) ==
    [k \in 1..Len(in.lengths) |->
        IF TooComplex(in.lengths[k]) THEN Null
        ELSE Geometry(k - 1, in.segments[k])]

\* lines 417-447: render
Render(s, in) ==
    LET stopped == StopAnimation(s)
        cached == [stopped EXCEPT !.cachedGenerations = in.lengths,
                                  !.cachedGeometries = PreRenderAllGenerations(in)]
        lastData == cached.cachedGeometries[Len(cached.cachedGeometries)]
        last == Len(cached.cachedGenerations) - 1
    IN  IF lastData = Null THEN cached
        ELSE [ShowGeometry(cached, lastData, Undefined)
                 EXCEPT !.currentGenIndex = last, !.sliderMax = last]

\* lines 316-323 and 179: the state the declarations give
InitUI ==
    /\ animationTimer = NoTimer
    /\ cachedGenerations = <<>> /\ cachedGeometries = <<>>
    /\ currentGenIndex = 0 /\ isPlaying = FALSE
    /\ drawProgress = Null
    /\ growthMode = TRUE
    /\ currentMesh = Null
    /\ sliderMax = 0
    /\ timers = {} /\ frameCalls = <<>>
    /\ uiEvent = [name |-> "none", val |-> 0]
    /\ showArgs = <<>>
    /\ clicks = 0
    /\ undisturbed = FALSE
    /\ uiPc = "load"
    /\ GenIdle /\ TurtleIdle /\ PipeIdle

\* a handler of the page leaves the other machines alone
UiFrame == UNCHANGED <<genVars, turtleVars, pipeVars, showArgs>>

\* the user acts on the page once more
Click == clicks < MaxClicks /\ clicks' = clicks + 1

\* line 721: loadPreset('3D Tree'), which ends in render() (line 289)
Load ==
    /\ uiPc = "load"
    /\ UNCHANGED <<clicks, undisturbed>>
    /\ Becomes("load", 0, Render(Here, TreeProfile(5)))
    /\ uiPc' = "ready"
    /\ UiFrame

\* the Render button: window.render, lines 417-447
RenderClick ==
    /\ uiPc = "ready"
    /\ Click
    /\ undisturbed' = FALSE
    /\ \E in \in UiInputs : Becomes("render", 0, Render(Here, in))
    /\ UNCHANGED uiPc
    /\ UiFrame

\* lines 461-483: window.togglePlay
TogglePlay ==
    /\ uiPc = "ready"
    /\ Click
    /\ undisturbed' = (cachedGeometries # <<>> /\ ~isPlaying)
    /\ IF cachedGeometries = <<>>
       THEN \E in \in UiInputs : Becomes("togglePlay", 0, Render(Here, in))
       ELSE IF isPlaying
       THEN Becomes("togglePlay", 0, StopAnimation(Here))
       ELSE LET playing == [Here EXCEPT !.isPlaying = TRUE]
                from == IF playing.currentGenIndex >= Len(cachedGenerations) - 1
                        THEN [playing EXCEPT !.currentGenIndex = 0]
                        ELSE playing
            IN  Becomes("togglePlay", 0,
                        StartGrowthForGen(from, from.currentGenIndex))
    /\ UNCHANGED uiPc
    /\ UiFrame

\* lines 539-541: window.setGrowthMode
SetGrowthMode ==
    /\ uiPc = "ready"
    /\ Click
    /\ undisturbed' = FALSE
    /\ \E enabled \in BOOLEAN :
          Becomes("setGrowthMode", 0, [Here EXCEPT !.growthMode = enabled])
    /\ UNCHANGED uiPc
    /\ UiFrame

\* lines 547-556: window.scrubGeneration(val), val a value of the slider
ScrubGeneration ==
    /\ uiPc = "ready"
    /\ Click
    /\ undisturbed' = FALSE
    /\ \E val \in 0..sliderMax :
          IF cachedGeometries = <<>> THEN Becomes("scrubGeneration", val, Here)
          ELSE LET at == [StopAnimation(Here) EXCEPT !.currentGenIndex = val]
                   data == At(at.cachedGeometries, val)
               IN  IF data = Null THEN Becomes("scrubGeneration", val, at)
                   ELSE Becomes("scrubGeneration", val,
                                ShowGeometry(at, data, Undefined))
    /\ UNCHANGED uiPc
    /\ UiFrame

\* lines 559-589: one frame of animate while a growth is under way
Animate ==
    /\ uiPc = "ready"
    /\ UNCHANGED <<clicks, undisturbed>>
    /\ drawProgress # Null /\ currentMesh # Null
    /\ \E vertCount \in {VertCount(drawProgress.totalVerts, drawProgress.elapsed,
                                  drawProgress.duration5)} :
       LET dp == drawProgress
           evenCount == EvenCount(vertCount)
           last == Len(cachedGenerations) - 1
           grown == [Here EXCEPT !.currentMesh.drawRange = DrawRange(evenCount)]
       IN  IF GrowthOver(dp.elapsed, dp.duration5)
           THEN LET done == [grown EXCEPT
                                !.currentMesh.drawRange = DrawRange(dp.totalVerts),
                                !.drawProgress = Null,
                                !.currentGenIndex = dp.genIndex]
                IN  /\ frameCalls' = <<evenCount, dp.totalVerts>>
                    /\ IF done.isPlaying /\ dp.genIndex < last
                       THEN Assign(SetTimeout(done, NewTimerId(done),
                                              dp.genIndex + 1, GrowthDelay))
                       ELSE IF dp.genIndex >= last
                       THEN Assign(StopAnimation(done))
                       ELSE Assign(done)
           ELSE /\ frameCalls' = <<evenCount>>
                /\ Assign(grown)
    /\ uiEvent' = [name |-> "animate", val |-> 0]
    /\ UNCHANGED uiPc
    /\ UiFrame

\* the callback of a timeout that is due (lines 500-501 and 583-584); the
\* event is named after whether stopAnimation has run since the timeout was
\* set
TimerFire ==
    /\ uiPc = "ready"
    /\ UNCHANGED <<clicks, undisturbed>>
    /\ \E t \in timers :
          /\ t.left = 0
          /\ LET fired == [Here EXCEPT !.timers = @ \ {t}]
                 name == IF t.stopped THEN "staleTimeout" ELSE "timeout"
             IN  IF fired.isPlaying
                 THEN Becomes(name, t.next, StartGrowthForGen(fired, t.next))
                 ELSE Becomes(name, t.next, fired)
    /\ UNCHANGED uiPc
    /\ UiFrame

\* performance.now() moves on by TickMs; a timeout that is due runs before
\* the clock moves further
Tick ==
    /\ uiPc = "ready"
    /\ UNCHANGED <<clicks, undisturbed>>
    /\ \A t \in timers : t.left > 0
    /\ \/ timers # {}
       \/ drawProgress # Null /\ ~GrowthOver(drawProgress.elapsed, drawProgress.duration5)
    /\ timers' = {[t EXCEPT !.left = Max(0, @ - TickMs)] : t \in timers}
    /\ drawProgress' =
          IF drawProgress # Null
             /\ ~GrowthOver(drawProgress.elapsed, drawProgress.duration5)
          THEN [drawProgress EXCEPT !.elapsed = @ + TickMs]
          ELSE drawProgress
    /\ uiEvent' = [name |-> "tick", val |-> 0]
    /\ UNCHANGED <<animationTimer, cachedGenerations, cachedGeometries,
                   currentGenIndex, isPlaying, growthMode, currentMesh,
                   sliderMax, frameCalls, uiPc>>
    /\ UiFrame

NextUI ==
    \/ Load \/ RenderClick \/ TogglePlay \/ SetGrowthMode \/ ScrubGeneration
    \/ Animate \/ TimerFire \/ Tick

SpecUI == InitUI /\ [][NextUI]_vars

\* the playback with its scheduling: animate asks for the next frame in
\* every frame (line 560), a timeout that is due is run, and time moves on
FairSpecUI ==
    SpecUI /\ WF_vars(Animate) /\ WF_vars(TimerFire) /\ WF_vars(Tick)

-----------------------------------------------------------------------------
(* showGeometry on its own: one call with a buffer and a prefix length *)

\* the buffers and the prefix lengths showGeometry is called with: a buffer
\* of up to MaxShowSegments segments or null, and a prefix of k of its
\* segments or none
ShowInputs ==
    {[data |-> Geometry(0, s), segmentCount |-> Given(k)] :
        s \in 0..MaxShowSegments, k \in 0..MaxShowSegments}
    \cup {[data |-> Geometry(0, s), segmentCount |-> Undefined] :
            s \in 0..MaxShowSegments}
    \cup {[data |-> Null, segmentCount |-> Undefined]}

\* showGeometry is about to be called, with or without a mesh on display
InitShow ==
    /\ showArgs \in {in \in ShowInputs :
                        in.data # Null /\ in.segmentCount.defined
                            => 2 * in.segmentCount.value <= in.data.totalVerts}
    /\ currentMesh \in {Null, Mesh(Geometry(0, 1), WholeRange)}
    /\ animationTimer = NoTimer
    /\ cachedGenerations = <<>> /\ cachedGeometries = <<>>
    /\ currentGenIndex = 0 /\ isPlaying = FALSE
    /\ drawProgress = Null
    /\ growthMode = TRUE
    /\ sliderMax = 0
    /\ timers = {} /\ frameCalls = <<>>
    /\ uiEvent = [name |-> "none", val |-> 0]
    /\ clicks = 0
    /\ undisturbed = FALSE
    /\ uiPc = "show"
    /\ GenIdle /\ TurtleIdle /\ PipeIdle

\* lines 332-356: the call
ShowCall ==
    /\ uiPc = "show"
    /\ Assign(ShowGeometry(Here, showArgs.data, showArgs.segmentCount))
    /\ uiPc' = "shown"
    /\ uiEvent' = [name |-> "showGeometry", val |-> 0]
    /\ UNCHANGED <<frameCalls, clicks, undisturbed>>
    /\ UiFrame

NextShow == ShowCall

SpecShow == InitShow /\ [][NextShow]_vars

-----------------------------------------------------------------------------
(* Properties of interpretString *)

\* the positions of the characters among the first n that emit segments, in
\* scan order, an 'X' listed twice (once for each of its segments)
RECURSIVE RefEmitters(_)
RefEmitters(n) ==
    IF n = 0 THEN <<>>
    ELSE LET before == RefEmitters(n - 1)
         IN  IF str[n] \in {"F", "A", "B"} THEN Append(before, n)
             ELSE IF str[n] = "X" THEN before \o <<n, n>>
             ELSE before

\* how many of the first n characters are ch
RECURSIVE RefCount(_, _)
RefCount(ch, n) ==
    IF n = 0 THEN 0 ELSE RefCount(ch, n - 1) + (IF str[n] = ch THEN 1 ELSE 0)

\* the segments the first n characters call for
RefSegments(n) ==
    RefCount("F", n) + RefCount("A", n) + RefCount("B", n) + 2 * RefCount("X", n)

\* the k-th segment of a buffer
SegVertices(buf, k) == SubSeq(buf.vertices, 6 * k - 5, 6 * k)
SegColors(buf, k) == SubSeq(buf.colors, 6 * k - 5, 6 * k)

\* the buffers a caller sees: the arrays so far, and the result once returned
Current == Buffers(vertices, colors, segmentBirths)
Running == turtlePc \in {"scan", "done"}

\* C5: the number of segments emitted is the number of F, A and B characters
\* plus twice the number of X characters, after every character and in the
\* returned arrays; no other character emits a segment.
C5_SegmentCount ==
    /\ Running =>
          /\ Len(segmentBirths) = RefSegments(strI)
          /\ Len(vertices) = 6 * RefSegments(strI)
          /\ Len(colors) = 6 * RefSegments(strI)
    /\ turtlePc = "done" =>
          /\ Len(result.vertices) = 6 * RefSegments(Len(str))
          /\ Len(result.colors) = 6 * RefSegments(Len(str))
          /\ Len(result.segmentBirths) = RefSegments(Len(str))
          /\ (RefCount("A", Len(str)) + RefCount("B", Len(str)) + RefCount("X", Len(str)) = 0
                => Len(result.segmentBirths) = RefCount("F", Len(str)))

\* a returned run over a string with a B, an X and a character that draws
\* nothing
C5_Witness ==
    /\ turtlePc = "done"
    /\ RefCount("B", Len(str)) = 1
    /\ RefCount("X", Len(str)) = 1
    /\ Len(str) = 3
    /\ Len(result.segmentBirths) = 3

\* the color triple of both endpoints of a segment
BothEndpoints(c) == <<c[1], c[2], c[3], c[1], c[2], c[3]>>

\* C6 as stated: every segment of an F, A or B has branchColor on both
\* endpoints and every segment of an X has leafColor on both endpoints.
C6_BranchColorForFAB ==
    Running =>
        LET emitters == RefEmitters(strI)
        IN  \A k \in 1..Len(segmentBirths) :
            LET ch == str[emitters[k]]
            IN  SegColors(Current, k) =
                    IF ch = "X" THEN BothEndpoints(leafColor)
                                ELSE BothEndpoints(branchColor)

\* C6 as amended: every segment of an F or an A has branchColor on both
\* endpoints, and every segment of a B or an X has leafColor on both
\* endpoints, in the arrays and in the returned result.
C6_SegmentColors ==
    /\ Running =>
          LET emitters == RefEmitters(strI)
          IN  \A k \in 1..Len(segmentBirths) :
              LET ch == str[emitters[k]]
              IN  SegColors(Current, k) =
                      IF ch \in {"F", "A"} THEN BothEndpoints(branchColor)
                                           ELSE BothEndpoints(leafColor)
    /\ turtlePc = "done" => result.colors = colors

\* a returned run that drew an F, a B and an X
C6_Witness ==
    /\ turtlePc = "done"
    /\ RefCount("F", Len(str)) = 1
    /\ RefCount("B", Len(str)) = 1
    /\ RefCount("X", Len(str)) = 1
    /\ Len(result.colors) = 24

\* C7: the tag of each segment is the birth tag of the character that
\* emitted it (both segments of an X carry the tag of that X), in emission
\* order; without a tag sequence every segment tag is 0.
C7_SegmentBirths ==
    /\ Running =>
          LET emitters == RefEmitters(strI)
          IN  \A k \in 1..Len(segmentBirths) :
                  segmentBirths[k] =
                      IF birthGens.given THEN birthGens.tags[emitters[k]] ELSE 0
    /\ turtlePc = "done" =>
          LET emitters == RefEmitters(Len(str))
          IN  /\ Len(result.segmentBirths) = Len(emitters)
              /\ \A k \in 1..Len(result.segmentBirths) :
                    result.segmentBirths[k] =
                        IF birthGens.given THEN birthGens.tags[emitters[k]] ELSE 0

\* a returned run with tags in which an X that is not the first character
\* gave its tag to two segments, after another segment
C7_Witness ==
    /\ turtlePc = "done"
    /\ birthGens.given
    /\ Len(str) = 3
    /\ str[3] = "X"
    /\ result.segmentBirths = <<0, 2, 2>>

\* the first k segments of a buffer
Prefix(buf, k) ==
    Buffers(SubSeq(buf.vertices, 1, 6 * k), SubSeq(buf.colors, 1, 6 * k),
            SubSeq(buf.segmentBirths, 1, k))

\* C8: every segment owns 6 vertex coordinates, 6 color components and 1
\* tag, and for every k the first k segments of the arrays (and of the
\* returned result) are exactly the buffers as they were right after the
\* k-th segment was emitted: nothing emitted is rewritten or reordered.
C8_PrefixInvariant ==
    /\ Running =>
          /\ Len(vertices) = 6 * Len(segmentBirths)
          /\ Len(colors) = 6 * Len(segmentBirths)
          /\ Len(snaps) = Len(segmentBirths)
          /\ \A k \in 1..Len(snaps) : Prefix(Current, k) = snaps[k]
    /\ turtlePc = "done" =>
          /\ Len(result.vertices) = 6 * Len(result.segmentBirths)
          /\ Len(result.colors) = 6 * Len(result.segmentBirths)
          /\ Len(result.segmentBirths) = Len(snaps)
          /\ \A k \in 0..Len(snaps) :
                Prefix(result, k) =
                    IF k = 0 THEN Buffers(<<>>, <<>>, <<>>) ELSE snaps[k]

\* a returned run in which segments were emitted before, by and after an X,
\* so that a snapshot was taken between the two segments of the X
C8_Witness ==
    /\ turtlePc = "done"
    /\ Len(str) >= 3
    /\ str[1] = "F" /\ str[2] = "X" /\ str[3] \in {"F", "A", "B"}
    /\ Len(snaps) = 4
    /\ snaps[2] # snaps[3]

\* the bracket depth after str[a..k], counted from 0 before str[a]
RECURSIVE RefDepth(_, _)
RefDepth(a, k) ==
    IF k < a THEN 0
    ELSE RefDepth(a, k - 1)
         + (IF str[k] = "[" THEN 1 ELSE IF str[k] = "]" THEN -1 ELSE 0)

\* str[a..b] is a properly nested bracketed substring: it opens at a, closes
\* at b, and stays open in between
RefMatching(a, b) ==
    /\ a < b
    /\ str[a] = "[" /\ str[b] = "]"
    /\ RefDepth(a, b) = 0
    /\ \A k \in a..(b - 1) : RefDepth(a, k) >= 1

\* the positions of the '[' among the first n characters that no ']' has
\* closed yet, innermost last; a ']' with nothing open closes nothing
RECURSIVE RefOpen(_)
RefOpen(n) ==
    IF n = 0 THEN <<>>
    ELSE LET open == RefOpen(n - 1)
         IN  IF str[n] = "[" THEN Append(open, n)
             ELSE IF str[n] = "]" /\ Len(open) > 0
                  THEN SubSeq(open, 1, Len(open) - 1)
             ELSE open

\* the position and orientation an entry of the stack holds
SavedState(entry) == [pos |-> entry.pos, quat |-> qheap[entry.quat]]

\* C9: for every properly nested bracketed substring the position and the
\* orientation right after the matching ']' are those right before the '[',
\* and every state saved on the stack stays the state the turtle had before
\* its '[', whatever commands run in between.
C9_StackBalance ==
    Running =>
        /\ \A a \in 1..strI : \A b \in 1..strI :
              RefMatching(a, b) => hist[b + 1] = hist[a]
        /\ LET open == RefOpen(strI)
           IN  /\ Len(stack) = Len(open)
               /\ \A d \in 1..Len(stack) : SavedState(stack[d]) = hist[open[d]]

\* a returned run over "[", a turn, "[", a draw, "]", "]": inside the
\* brackets both the position and the orientation moved away from the saved
\* state, and a nested pair was pushed and popped
C9_Witness ==
    /\ turtlePc = "done"
    /\ Len(str) = 6
    /\ RefMatching(1, 6) /\ RefMatching(3, 5)
    /\ hist[5].pos # hist[1].pos
    /\ hist[5].quat # hist[1].quat
    /\ hist[7] = hist[1]

\* the last recorded position and orientation
LastHist == hist[Len(hist)]

\* C10: a ']' met while the stack is empty changes neither position,
\* orientation, stack nor the output arrays, raises nothing, and the scan
\* goes on with the next character; no run ever raises an error and the
\* stack depth is the number of open brackets, never below zero.
C10_UnmatchedCloseIsNoOp ==
    /\ [](~thrown /\ turtlePc # "thrown" /\ Len(stack) >= 0)
    /\ [][(AtChar /\ Ch = "]" /\ Len(stack) = 0) =>
              /\ pos' = pos
              /\ quat' = quat /\ qheap' = qheap
              /\ stack' = stack
              /\ vertices' = vertices /\ colors' = colors
              /\ segmentBirths' = segmentBirths
              /\ LastHist' = LastHist
              /\ strI' = strI + 1
              /\ turtlePc' = "scan"]_vars

\* a returned run whose first character was a ']' on the empty stack and
\* which went on to draw and to meet a second unmatched ']'
C10_Witness ==
    /\ turtlePc = "done"
    /\ Len(str) = 3
    /\ str[1] = "]" /\ str[2] \in {"F", "A", "B"} /\ str[3] = "]"
    /\ Len(result.segmentBirths) = 1
    /\ ~thrown

\* the index in the buffer of the first segment character n emitted, given
\* that str[n] emits
FirstSegmentOf(n) == Len(RefEmitters(n - 1)) + 1

\* C11: an X emits exactly two segments, both starting at the turtle's
\* position, and changes neither the position, the orientation nor the
\* stack, so a drawing command right after the X starts where the X did.
C11_LeafKeepsTurtle ==
    /\ [][(AtChar /\ Ch = "X") =>
              /\ pos' = pos
              /\ quat' = quat /\ qheap' = qheap
              /\ stack' = stack
              /\ Len(segmentBirths') = Len(segmentBirths) + 2
              /\ Len(vertices') = Len(vertices) + 12
              /\ SubSeq(vertices', 1, Len(vertices)) = vertices
              /\ LET after == Buffers(vertices', colors', segmentBirths')
                     k == Len(segmentBirths)
                 IN  /\ SubSeq(SegVertices(after, k + 1), 1, 3) = pos
                     /\ SubSeq(SegVertices(after, k + 2), 1, 3) = pos
              /\ strI' = strI + 1]_vars
    /\ [](Running =>
            \A n \in 1..strI :
               (str[n] = "X" /\ n < strI /\ str[n + 1] \in {"F", "A", "B", "X"}) =>
                   LET k == FirstSegmentOf(n)
                   IN  SubSeq(SegVertices(Current, k + 2), 1, 3)
                          = SubSeq(SegVertices(Current, k), 1, 3))

\* a returned run over a draw, an X and a draw: the X's two segments and the
\* segment of the draw after it all start at the end of the first segment,
\* away from the origin
C11_Witness ==
    /\ turtlePc = "done"
    /\ Len(str) = 3
    /\ str[1] \in {"F", "A", "B"} /\ str[2] = "X" /\ str[3] \in {"F", "A", "B"}
    /\ Len(result.segmentBirths) = 4
    /\ LET end1 == SubSeq(SegVertices(result, 1), 4, 6)
       IN  /\ end1 # Origin
           /\ SubSeq(SegVertices(result, 2), 1, 3) = end1
           /\ SubSeq(SegVertices(result, 3), 1, 3) = end1
           /\ SubSeq(SegVertices(result, 4), 1, 3) = end1

\* how many of the first n characters are '+' or '-'
RefTurns(n) == RefCount("+", n) + RefCount("-", n)

\* C14: with twist = 0 the random source is never consulted, and a '+' or
\* '-' then leaves exactly the orientation its fixed rotation gives, so
\* nothing but the inputs decides a run; with twist > 0 the random source is
\* consulted once for every '+' and '-' scanned and at no other character.
C14_RandomOnlyAtTurns ==
    /\ [](Running =>
            randomCalls = IF twist > 0 THEN RefTurns(strI) ELSE 0)
    /\ [][(AtChar /\ Ch \notin {"+", "-"}) => randomCalls' = randomCalls]_vars
    /\ [][(AtChar /\ Ch \in {"+", "-"} /\ twist = 0) =>
              qheap'[quat] =
                  MultiplyQuat(qheap[quat],
                               SetFromAxisAngle(AxisZ, IF Ch = "+" THEN -Rad(angle)
                                                       ELSE Rad(angle)))]_vars

\* a returned run with twist > 0 over a string with a '+', a '-' and a draw:
\* the random source was consulted twice
C14_Witness ==
    /\ turtlePc = "done"
    /\ twist > 0
    /\ RefCount("+", Len(str)) = 1 /\ RefCount("-", Len(str)) = 1
    /\ RefCount("F", Len(str)) >= 1
    /\ randomCalls = 2

\* the two end points of the k-th segment of a buffer
SegStart(buf, k) == SubSeq(SegVertices(buf, k), 1, 3)
SegEnd(buf, k) == SubSeq(SegVertices(buf, k), 4, 6)

\* C16: the start point of every emitted segment, branch or leaf, is the
\* origin or the end point of a branch segment earlier in the buffer, so
\* every prefix of the buffer is connected and rooted at the origin,
\* whatever the bracket nesting, unmatched ']' included.
C16_GrowthOrder ==
    Running =>
        LET emit == RefEmitters(strI)
        IN  \A k \in 1..Len(segmentBirths) :
               \/ SegStart(Current, k) = Origin
               \/ \E j \in 1..(k - 1) :
                     /\ str[emit[j]] \in {"F", "A", "B"}
                     /\ SegEnd(Current, j) = SegStart(Current, k)

\* a returned run over F [ F ] F ]: the third segment starts where the first
\* one ended, not where the second one did, and an unmatched ']' was met
C16_Witness ==
    /\ turtlePc = "done"
    /\ str = <<"F", "[", "F", "]", "F", "]">>
    /\ Len(result.segmentBirths) = 3
    /\ SegStart(result, 3) = SegEnd(result, 1)
    /\ SegStart(result, 3) # SegEnd(result, 2)
    /\ SegStart(result, 3) # Origin

\* rotations by a quarter turn as 3x3 matrices (rows), the reference the
\* quaternions are compared with
MatIdentity == <<<<1, 0, 0>>, <<0, 1, 0>>, <<0, 0, 1>>>>
MatMul(a, b) ==
    [r \in 1..3 |->
        [c \in 1..3 |-> a[r][1] * b[1][c] + a[r][2] * b[2][c] + a[r][3] * b[3][c]]]
MatVec(a, v) ==
    [r \in 1..3 |-> a[r][1] * v[1] + a[r][2] * v[2] + a[r][3] * v[3]]

\* the rotation of each orientation command for angle = 90: '+'/'-' by
\* -angle/+angle about Z, '^'/'&' by +angle/-angle about X, '\'/'/' by
\* +angle/-angle about Y
RefRotation(ch) ==
    CASE ch = "+"  -> <<<<0, 1, 0>>, <<-1, 0, 0>>, <<0, 0, 1>>>>
      [] ch = "-"  -> <<<<0, -1, 0>>, <<1, 0, 0>>, <<0, 0, 1>>>>
      [] ch = "^"  -> <<<<1, 0, 0>>, <<0, 0, -1>>, <<0, 1, 0>>>>
      [] ch = "&"  -> <<<<1, 0, 0>>, <<0, 0, 1>>, <<0, -1, 0>>>>
      [] ch = "\\" -> <<<<0, 0, 1>>, <<0, 1, 0>>, <<-1, 0, 0>>>>
      [] ch = "/"  -> <<<<0, 0, -1>>, <<0, 1, 0>>, <<1, 0, 0>>>>

\* the product q1*q2*...*qn of the rotations of the orientation commands on
\* the branch path of the first n characters, the earliest leftmost: m is the
\* product, saved the products at the '[' still open
RECURSIVE RefPath(_)
RefPath(n) ==
    IF n = 0 THEN [m |-> MatIdentity, saved |-> <<>>]
    ELSE LET before == RefPath(n - 1)
             ch == str[n]
         IN  IF ch \in {"+", "-", "^", "&", "\\", "/"}
             THEN [before EXCEPT !.m = MatMul(@, RefRotation(ch))]
             ELSE IF ch = "["
             THEN [before EXCEPT !.saved = Append(@, before.m)]
             ELSE IF ch = "]" /\ Len(before.saved) > 0
             THEN [m |-> before.saved[Len(before.saved)],
                   saved |-> SubSeq(before.saved, 1, Len(before.saved) - 1)]
             ELSE before

\* C17: with twist = 0 and angle = 90, the direction of every branch segment
\* is the up vector rotated by the product of the rotations of the
\* orientation commands on its branch path, in scan order with the earliest
\* leftmost (right-multiplication, the turtle's local frame).
C17_LocalFrameComposition ==
    (Running /\ twist = 0 /\ angle = 90) =>
        LET emit == RefEmitters(strI)
        IN  \A k \in 1..Len(segmentBirths) :
               str[emit[k]] \in {"F", "A", "B"} =>
                   VSub(SegEnd(Current, k), SegStart(Current, k))
                      = VScale(MatVec(RefPath(emit[k] - 1).m, Up), len * CoordUnit)

\* the returned run over "+^F": the one segment runs along +Z, not along +X
C17_Witness ==
    /\ turtlePc = "done"
    /\ twist = 0 /\ angle = 90
    /\ str = <<"+", "^", "F">>
    /\ Len(result.segmentBirths) = 1
    /\ VSub(SegEnd(result, 1), SegStart(result, 1)) = <<0, 0, len * CoordUnit>>

-----------------------------------------------------------------------------
(* Properties of generateAllGenerationsTagged *)

\* generation g of the run so far (gens is 1-based)
Generation(g) == gens[g + 1]
LastGen == Len(gens) - 1

\* the number of characters symbol ch contributes to the next generation
\* when rewriting is done by rule-set membership
RefWidth(rs, ch) == IF ch \in DOMAIN rs THEN Len(rs[ch]) ELSE 1

\* the 1-based position, in the next generation, of the first character that
\* position j of string cs contributes
RECURSIVE RefOffset(_, _, _)
RefOffset(cs, rs, j) ==
    IF j = 1 THEN 1 ELSE RefOffset(cs, rs, j - 1) + RefWidth(rs, cs[j - 1])

\* the reference rewriting of the specification: one left-to-right pass over
\* generation i, a symbol with an entry replaced and tagged i+1, a symbol
\* without one copied with its tag
RECURSIVE RefRewrite(_, _, _, _)
RefRewrite(gen, rs, j, i) ==
    IF j > Len(gen.chars) THEN [chars |-> <<>>, births |-> <<>>]
    ELSE LET ch == gen.chars[j]
             rest == RefRewrite(gen, rs, j + 1, i)
         IN  IF ch \in DOMAIN rs
             THEN [chars |-> rs[ch] \o rest.chars,
                   births |-> [k \in 1..Len(rs[ch]) |-> i + 1] \o rest.births]
             ELSE [chars |-> <<ch>> \o rest.chars,
                   births |-> <<gen.births[j]>> \o rest.births]

\* C1: the run returns exactly iterations+1 generations, generation 0 is the
\* axiom with all-zero tags, and in every generation the symbol string and
\* the tag sequence have the same length.
C1_GenerationCountAndLengths ==
    /\ Generation(0) = [chars |-> axiom, births |-> [j \in 1..Len(axiom) |-> 0]]
    /\ \A g \in 0..LastGen : Len(Generation(g).chars) = Len(Generation(g).births)
    /\ Len(gens) <= iterations + 1
    /\ genPc = "done" => Len(gens) = iterations + 1

\* a finished run of MaxIter iterations whose string has grown
C1_Witness ==
    /\ genPc = "done"
    /\ iterations = MaxIter
    /\ Len(Generation(LastGen).chars) > Len(axiom) + 1

\* C2: every generation i+1 is the reference rewriting of generation i, the
\* characters of a replacement tagged i+1 and a copied character keeping its
\* tag; the Sierpinski axiom gives generation 1 = "+B-A-B+" with seven tags 1.
C2_MatchesReferenceRewriting ==
    /\ \A g \in 0..(LastGen - 1) :
          Generation(g + 1) = RefRewrite(Generation(g), rules, 1, g)
    /\ (axiom = SierpinskiInput.axiom /\ rules = SierpinskiInput.rules /\ LastGen >= 1)
          => Generation(1) = [chars |-> <<"+", "B", "-", "A", "-", "B", "+">>,
                              births |-> [k \in 1..7 |-> 1]]

\* C3: a symbol without a rule is copied to the next generation with the tag
\* it carries, at every step, so that it keeps the tag of its first
\* appearance in every later generation.
C3_TerminalKeepsTag ==
    \A g \in 0..(LastGen - 1) :
        \A j \in 1..Len(Generation(g).chars) :
            Generation(g).chars[j] \notin DOMAIN rules =>
                LET p == RefOffset(Generation(g).chars, rules, j)
                IN  /\ Generation(g + 1).chars[p] = Generation(g).chars[j]
                    /\ Generation(g + 1).births[p] = Generation(g).births[j]

\* a terminal symbol introduced by a rule at generation 1 is still tagged 1
\* two generations later, behind a symbol that kept expanding
C3_Witness ==
    /\ genPc = "done"
    /\ LastGen >= 3
    /\ "F" \notin DOMAIN rules
    /\ \E j \in 2..Len(Generation(3).chars) :
          /\ Generation(3).chars[j] = "F"
          /\ Generation(3).births[j] = 1
          /\ Generation(3).births[1] = 3

\* C4 as stated: a rule whose replacement is its own key behaves as a
\* terminal symbol, the string does not grow and the tag is preserved; for
\* axiom "X", rules {X: "X"}, five iterations, all six generations are "X"
\* with tag 0.
C4_SelfRuleKeepsTag ==
    /\ \A g \in 0..(LastGen - 1) :
          \A j \in 1..Len(Generation(g).chars) :
              LET ch == Generation(g).chars[j]
                  p  == RefOffset(Generation(g).chars, rules, j)
              IN  (ch \in DOMAIN rules /\ rules[ch] = <<ch>>) =>
                      /\ Generation(g + 1).chars[p] = ch
                      /\ Generation(g + 1).births[p] = Generation(g).births[j]
    /\ (axiom = SelfRuleInput.axiom /\ rules = SelfRuleInput.rules) =>
          \A g \in 0..LastGen : Generation(g) = [chars |-> <<"X">>, births |-> <<0>>]

\* C4 as amended: a rule whose replacement is its own key does not grow the
\* string, but the symbol is tagged anew at every iteration: in generation
\* g+1 it carries g+1 (as an 8-bit cell stores it), whatever it carried in
\* generation g; for axiom "X", rules {X: "X"}, generation g is "X" tagged g.
C4_SelfRuleRetags ==
    /\ \A g \in 0..(LastGen - 1) :
          \A j \in 1..Len(Generation(g).chars) :
              LET ch == Generation(g).chars[j]
                  p  == RefOffset(Generation(g).chars, rules, j)
              IN  (ch \in DOMAIN rules /\ rules[ch] = <<ch>>) =>
                      /\ Generation(g + 1).chars[p] = ch
                      /\ RefOffset(Generation(g).chars, rules, j + 1) = p + 1
                      /\ Generation(g + 1).births[p] = (g + 1) % 256
    /\ (axiom = SelfRuleInput.axiom /\ rules = SelfRuleInput.rules) =>
          \A g \in 0..LastGen : Generation(g) = [chars |-> <<"X">>, births |-> <<g>>]

\* the run of axiom "X" under {X: "X"} has finished its five iterations
C4_Witness ==
    /\ genPc = "done"
    /\ axiom = SelfRuleInput.axiom
    /\ rules = SelfRuleInput.rules
    /\ LastGen = 5
    /\ Generation(5) = [chars |-> <<"X">>, births |-> <<5>>]
\* C20: every tag stored in generation g lies in 0..g and a character that a
\* rule introduced at iteration g+1 stores exactly g+1, for every iteration
\* count, those of 256 and above included.
C20_TagsAreIterationIndices ==
    /\ \A g \in 0..LastGen :
          \A j \in 1..Len(Generation(g).births) :
              Generation(g).births[j] \in 0..g
    /\ \A g \in 0..(LastGen - 1) :
          \A j \in 1..Len(Generation(g).chars) :
              LET ch == Generation(g).chars[j]
                  p  == RefOffset(Generation(g).chars, rules, j)
              IN  ch \in DOMAIN rules =>
                      \A k \in p..(p + Len(rules[ch]) - 1) :
                          Generation(g + 1).births[k] = g + 1

-----------------------------------------------------------------------------
(* Properties of the pipeline *)

\* a segment buffer without segments
EmptyBuffers == Buffers(<<>>, <<>>, <<>>)

\* C15: for the empty axiom, any rule set and any iteration count n, all
\* n+1 generations have an empty string and an empty tag sequence, and the
\* interpretation of each returns empty vertices, colors and segmentBirths
\* and raises nothing.
C15_EmptyAxiom ==
    axiom = <<>> =>
        /\ \A g \in 0..LastGen : Generation(g) = [chars |-> <<>>, births |-> <<>>]
        /\ genPc = "done" => Len(gens) = iterations + 1
        /\ \A k \in 1..Len(preRendered) : preRendered[k] = EmptyBuffers
        /\ turtlePc = "done" => result = EmptyBuffers
        /\ ~thrown /\ turtlePc # "thrown"
        /\ pipePc = "done" => Len(preRendered) = iterations + 1

\* render's pipeline has finished for the empty axiom under a rule set with
\* rules and the largest iteration count: every generation was interpreted
C15_Witness ==
    /\ pipePc = "done"
    /\ axiom = <<>>
    /\ DOMAIN rules # {}
    /\ iterations = MaxPipeIter
    /\ Len(gens) = iterations + 1
    /\ Len(preRendered) = iterations + 1
    /\ preRendered[Len(preRendered)] = EmptyBuffers

\* the output arrays are left as they are by a step
BuffersUnchanged ==
    vertices' = vertices /\ colors' = colors /\ segmentBirths' = segmentBirths

\* every Quaternion object that exists keeps its value, and so does every
\* state saved on the stack
SavedUnchanged ==
    /\ stack' = stack
    /\ \A d \in 1..Len(stack) : qheap'[stack[d].quat] = qheap[stack[d].quat]

\* the characters interpretString has a case for
RefRecognized == {"F", "A", "B", "X", "+", "-", "^", "&", "\\", "/", "[", "]"}

\* C18: a character changes only what its command kind owns. An orientation
\* command changes the orientation and leaves position, stack and output
\* arrays alone; F, A and B move the position and append one segment,
\* leaving orientation and stack alone; '[' grows the stack by the current
\* state and changes nothing else; a character without a case changes
\* nothing, and yet expansion rewrites it whenever it has a rule.
C18_FrameEffects ==
    /\ [][(AtChar /\ Ch \in {"+", "-", "^", "&", "\\", "/"}) =>
              /\ qheap'[quat'] # qheap[quat]
              /\ pos' = pos /\ quat' = quat
              /\ SavedUnchanged
              /\ BuffersUnchanged
              /\ strI' = strI + 1]_vars
    /\ [][(AtChar /\ Ch \in {"F", "A", "B"}) =>
              /\ pos' # pos
              /\ quat' = quat /\ qheap' = qheap
              /\ SavedUnchanged
              /\ Len(segmentBirths') = Len(segmentBirths) + 1
              /\ SubSeq(vertices', 1, Len(vertices)) = vertices
              /\ SubSeq(colors', 1, Len(colors)) = colors
              /\ SubSeq(segmentBirths', 1, Len(segmentBirths)) = segmentBirths
              /\ SubSeq(vertices', Len(vertices) + 1, Len(vertices'))
                    = SegmentVertices(pos, pos')
              /\ strI' = strI + 1]_vars
    /\ [][(AtChar /\ Ch = "[") =>
              /\ Len(stack') = Len(stack) + 1
              /\ SubSeq(stack', 1, Len(stack)) = stack
              /\ stack'[Len(stack')].pos = pos
              /\ qheap'[stack'[Len(stack')].quat] = qheap[quat]
              /\ \A r \in 1..Len(qheap) : qheap'[r] = qheap[r]
              /\ pos' = pos /\ quat' = quat
              /\ BuffersUnchanged
              /\ strI' = strI + 1]_vars
    /\ [][(AtChar /\ Ch \notin RefRecognized) =>
              /\ pos' = pos /\ quat' = quat /\ qheap' = qheap
              /\ stack' = stack
              /\ BuffersUnchanged
              /\ ~thrown'
              /\ strI' = strI + 1]_vars
    /\ [](\A g \in 0..(LastGen - 1) :
            \A j \in 1..Len(Generation(g).chars) :
               LET ch == Generation(g).chars[j]
                   p  == RefOffset(Generation(g).chars, rules, j)
               IN  (ch \notin RefRecognized /\ ch \in DOMAIN rules) =>
                       SubSeq(Generation(g + 1).chars, p, p + Len(rules[ch]) - 1)
                          = rules[ch])

\* the Dragon Curve's generation 1, "FX+YF+", is being interpreted and the
\* scan has just passed its 'Y', which changed nothing; 'Y' has a rule and
\* generation 2 holds its replacement "-FX-Y" in its place
C18_Witness ==
    /\ pipePc = "map" /\ turtlePc = "scan"
    /\ axiom = DragonCurveInput.axiom /\ rules = DragonCurveInput.rules
    /\ mapIndex = 1
    /\ strI = 4 /\ str[4] = "Y"
    /\ hist[5] = hist[4]
    /\ Len(segmentBirths) = 3
    /\ SubSeq(Generation(2).chars, 8, 12) = rules["Y"]

-----------------------------------------------------------------------------
(* Properties of the display and the playback *)

\* the generations of the cache that were not interpreted
RefSkipped == {g \in 0..(Len(cachedGeometries) - 1) : cachedGeometries[g + 1] = Null}

\* C12: preRenderAllGenerations returns one result for every generation,
\* null exactly for a generation of more than 5000000 symbols and the
\* buffer interpreted from the generation otherwise; a generation over the
\* cap leaves the buffers of the others in the cache, and scrubGeneration
\* displays any of them, whole.
C12_SizeGuardPerGeneration ==
    uiPc = "ready" =>
        /\ Len(cachedGeometries) = Len(cachedGenerations)
        /\ Len(cachedGeometries) >= 1
        /\ \A g \in 0..(Len(cachedGenerations) - 1) :
              /\ cachedGeometries[g + 1] = Null <=> cachedGenerations[g + 1] > 5000000
              /\ cachedGeometries[g + 1] # Null => cachedGeometries[g + 1].src = g
        /\ (/\ uiEvent.name = "scrubGeneration"
            /\ uiEvent.val < Len(cachedGeometries)
            /\ uiEvent.val \notin RefSkipped) =>
               /\ currentGenIndex = uiEvent.val
               /\ currentMesh = Mesh(cachedGeometries[uiEvent.val + 1], WholeRange)
               /\ Displayed(currentMesh) = cachedGeometries[uiEvent.val + 1].totalVerts

\* render was given eight generations of which the last is over the cap
\* and the one before it has exactly 5000000 symbols; the slider was then
\* moved to that generation, which is displayed
C12_Witness ==
    /\ uiPc = "ready"
    /\ Len(cachedGeometries) = 8
    /\ RefSkipped = {7}
    /\ cachedGenerations[7] = 5000000
    /\ uiEvent = [name |-> "scrubGeneration", val |-> 6]
    /\ currentMesh # Null
    /\ currentMesh.data = cachedGeometries[7]
    /\ Displayed(currentMesh) = 2 * 5000000

\* the last count a frame passed to setDrawRange, 0 before the first frame
\* (line 520: setDrawRange(0, 0))
RefLastCall(calls) == IF calls = <<>> THEN 0 ELSE calls[Len(calls)]

\* what animate computes from drawProgress alone: the counts of a frame are
\* even, at most drawProgress.totalVerts and not below the count of the
\* frame before; the frame in which the growth completes passes
\* drawProgress.totalVerts and sets drawProgress to null, no other frame does
GrowthFramesOfProgress ==
    [][(drawProgress # Null /\ uiEvent'.name = "animate") =>
          LET total == drawProgress.totalVerts
              over == GrowthOver(drawProgress.elapsed, drawProgress.duration5)
          IN  /\ Len(frameCalls') >= 1
              /\ \A k \in 1..Len(frameCalls') :
                    /\ frameCalls'[k] % 2 = 0
                    /\ frameCalls'[k] >= 0
                    /\ frameCalls'[k] <= total
              /\ frameCalls'[1] >= RefLastCall(frameCalls)
              /\ RefLastCall(frameCalls') >= frameCalls'[1]
              /\ currentMesh'.drawRange = DrawRange(RefLastCall(frameCalls'))
              /\ over <=> drawProgress' = Null
              /\ over => RefLastCall(frameCalls') = total
              /\ ~over => drawProgress' = drawProgress]_vars

\* C19: in every frame of a growth the counts animate passes to setDrawRange
\* are even, are at most the total vertex count of the buffer of the mesh
\* whose draw range is set and are not below the count of the frame before;
\* the frame in which the growth completes passes that total vertex count
\* and sets drawProgress to null.
C19_GrowthFrames ==
    [][(drawProgress # Null /\ uiEvent'.name = "animate") =>
          LET total == currentMesh'.data.totalVerts
          IN  /\ Len(frameCalls') >= 1
              /\ \A k \in 1..Len(frameCalls') :
                    /\ frameCalls'[k] % 2 = 0
                    /\ frameCalls'[k] <= total
              /\ frameCalls'[1] >= RefLastCall(frameCalls)
              /\ RefLastCall(frameCalls') >= frameCalls'[1]
              /\ drawProgress' = Null => RefLastCall(frameCalls') = total]_vars

C21_NoStaleAdvance ==
    /\ [](Cardinality(timers) <= 1)
    /\ [][uiEvent'.name = "staleTimeout" =>
             UNCHANGED <<currentGenIndex, currentMesh, drawProgress,
                         isPlaying, animationTimer>>]_vars

\* playback has come to its end: nothing plays, nothing grows and the last
\* generation is the current one
PlaybackEnded ==
    /\ ~isPlaying
    /\ drawProgress = Null
    /\ currentGenIndex = Len(cachedGenerations) - 1

\* C22: after togglePlay has started playback over a cache without a null
\* buffer, and as long as the user does not act again, every timeout that
\* advances the playback starts the generation that follows the current one
\* once the growth before it is over, so that the generations are started
\* in increasing order, none skipped; the playback ends with isPlaying
\* false, drawProgress null and the last generation current; and in every
\* state a non-null drawProgress comes with isPlaying.
C22_PlaybackRunsToTheEnd ==
    /\ [](drawProgress # Null => isPlaying)
    /\ [][(/\ undisturbed /\ isPlaying /\ RefSkipped = {}
           /\ uiEvent'.name \in {"timeout", "staleTimeout"}) =>
             /\ drawProgress = Null
             /\ uiEvent'.val = currentGenIndex + 1
             /\ growthMode =>
                   drawProgress' # Null /\ drawProgress'.genIndex = uiEvent'.val
             /\ ~growthMode => currentGenIndex' = uiEvent'.val]_vars
    /\ (undisturbed /\ isPlaying /\ RefSkipped = {})
          ~> (~undisturbed \/ PlaybackEnded)


=============================================================================
